---- MODULE Spec2Model ----
(***************************************************************************)
(* A model of the athena NPC core: the knowledge graph                     *)
(* (knowledge_graph.rs), the emotional response tracker                    *)
(* (emotional_response.rs), the adaptive intelligence decision engine      *)
(* (adaptive_intelligence.rs), the personality profile (personality.rs)    *)
(* and the dialogue request (dialogue_generation.rs).                      *)
(*                                                                         *)
(* Every public method is one action.  An action applies the method to the *)
(* fields of its struct, stores what the method returned in `ret`, and,    *)
(* when the method takes &mut self, appends the call to `history`.         *)
(* `history` is a ghost variable: no definition that models code reads it; *)
(* the properties below are stated against it.                             *)
(***************************************************************************)
EXTENDS Integers, Sequences, FiniteSets, TLC

VARIABLES
    entities,         \* KnowledgeGraph.entities: HashMap<String, Entity>
    relationships,    \* KnowledgeGraph.relationships: Vec<Relationship>
    current_emotion,  \* EmotionalResponse.current_emotion: Emotion
    er_memory,        \* EmotionalResponse.memory: HashMap<String, Emotion>
    current_state,    \* AdaptiveIntelligence.current_state: State
    ai_memory,        \* AdaptiveIntelligence.memory: HashMap<String, String>
    actions,          \* AdaptiveIntelligence.actions: Vec<Action>
    peer,             \* a second NPC: its own KnowledgeGraph, EmotionalResponse
                      \* and AdaptiveIntelligence, as a record of their fields
    personality,      \* struct Personality: the five f64 traits
    env,              \* the process environment std::env::var reads
    request,          \* the future send_message returns: where it is
                      \* suspended and what it holds there
    caller,           \* the task that awaits the future and owns the NPC
    history,          \* ghost: the &mut self calls made so far, in order
    ret               \* the last call: [op, arg, val]

vars == <<entities, relationships, current_emotion, er_memory,
          current_state, ai_memory, actions, peer, personality,
          env, request, caller, history, ret>>

kgVars == <<entities, relationships>>
erVars == <<current_emotion, er_memory>>
aiVars == <<current_state, ai_memory, actions>>
\* What no method of the first NPC's three structs can name.
extVars == <<peer, personality, env, request, caller>>
dlgVars == <<env, request, caller>>

(***************************************************************************)
(* Bounds of the model.                                                    *)
(***************************************************************************)
\* The number of &mut self calls in one run.
MaxOps == 3
\* The length of the action catalog handed to AdaptiveIntelligence::new.
MaxCatalog == 2

(***************************************************************************)
(* Option<T>, () and HashMap<K, V>.                                        *)
(***************************************************************************)
None == [some |-> FALSE]
Some(v) == [some |-> TRUE, value |-> v]
Unit == [unit |-> TRUE]

\* HashMap::new()
HashMapNew == [k \in {} |-> None]

\* HashMap::insert(k, v): the key is bound to v, an earlier binding is dropped.
HashMapInsert(m, k, v) ==
    [x \in (DOMAIN m) \cup {k} |-> IF x = k THEN v ELSE m[x]]

\* HashMap::get(k): Some(value) for a bound key, None otherwise.
HashMapGet(m, k) == IF k \in DOMAIN m THEN Some(m[k]) ELSE None

\* Every HashMap with keys among K and values among V.
HashMaps(K, V) == UNION {[D -> V] : D \in SUBSET K}

Max(S) == CHOOSE n \in S : \A m \in S : m <= n

(***************************************************************************)
(* knowledge_graph.rs                                                      *)
(***************************************************************************)
\* Entity::new(id, properties)
Entity(id, properties) == [id |-> id, properties |-> properties]

\* Relationship::new(source, target, relation_type, properties)
Relationship(source, target, relation_type, properties) ==
    [source |-> source, target |-> target,
     relation_type |-> relation_type, properties |-> properties]

\* A plausible slip: the properties of an entity already stored under the id
\* are kept beside the new ones.
add_entity_merging(ents, entity) ==
    IF entity.id \in DOMAIN ents
    THEN HashMapInsert(ents, entity.id,
            Entity(entity.id,
                   [p \in (DOMAIN ents[entity.id].properties)
                            \cup (DOMAIN entity.properties) |->
                        IF p \in DOMAIN entity.properties
                        THEN entity.properties[p]
                        ELSE ents[entity.id].properties[p]]))
    ELSE HashMapInsert(ents, entity.id, entity)

\* self.entities.insert(entity.id.clone(), entity)
add_entity(ents, entity) == HashMapInsert(ents, entity.id, entity)

\* A plausible slip: at most one relationship kept per pair of ends, an
\* earlier one between the same source and target replaced by the new one.
add_relationship_replacing(rels, relationship) ==
    Append(SelectSeq(rels, LAMBDA r : ~(/\ r.source = relationship.source
                                        /\ r.target = relationship.target)),
           relationship)

\* self.relationships.push(relationship)
add_relationship(rels, relationship) == Append(rels, relationship)

\* self.entities.get(id)
get_entity(ents, id) == HashMapGet(ents, id)

\* A plausible slip: only outgoing relationships are matched.
relationship_filter_source_only(r, entity_id) == r.source = entity_id

\* the closure of get_relationships: |r| r.source == entity_id || r.target == entity_id
relationship_filter(r, entity_id) ==
    r.source = entity_id \/ r.target = entity_id

\* self.relationships.iter().filter(..).collect(): one pass over the vector,
\* front to back, keeping the elements the closure accepts.
RECURSIVE iter_filter_collect(_, _, _)
iter_filter_collect(rels, i, entity_id) ==
    IF i > Len(rels) THEN <<>>
    ELSE IF relationship_filter(rels[i], entity_id)
         THEN <<rels[i]>> \o iter_filter_collect(rels, i + 1, entity_id)
         ELSE iter_filter_collect(rels, i + 1, entity_id)

get_relationships(rels, entity_id) == iter_filter_collect(rels, 1, entity_id)

\* The inputs of the knowledge graph.
EntityIds == {"a", "b"}
QueryIds == EntityIds \cup {"c"}
PropertyMaps == HashMaps({"name", "kind"}, {"x"})
EntityInputs == {Entity(id, p) : id \in EntityIds, p \in PropertyMaps}
RelationshipInputs ==
    {Relationship(s, t, ty, HashMapNew) :
        s \in EntityIds, t \in EntityIds, ty \in {"friend", "foe"}}

Call(op, arg) == [op |-> op, arg |-> arg]
Returned(op, arg, val) == [op |-> op, arg |-> arg, val |-> val]

AddEntity(entity) ==
    /\ Len(history) < MaxOps
    /\ entities' = add_entity(entities, entity)
    /\ history' = Append(history, Call("KnowledgeGraph::add_entity", entity))
    /\ ret' = Returned("KnowledgeGraph::add_entity", entity, Unit)
    /\ UNCHANGED <<relationships, erVars, aiVars, extVars>>

\* A plausible slip: referential integrity enforced, a relationship being
\* accepted only between entities that are present.
AddRelationship_validated(relationship) ==
    /\ Len(history) < MaxOps
    /\ relationship.source \in DOMAIN entities
    /\ relationship.target \in DOMAIN entities
    /\ relationships' = add_relationship(relationships, relationship)
    /\ history' = Append(history,
                     Call("KnowledgeGraph::add_relationship", relationship))
    /\ ret' = Returned("KnowledgeGraph::add_relationship", relationship, Unit)
    /\ UNCHANGED <<entities, erVars, aiVars, extVars>>

AddRelationship(relationship) ==
    /\ Len(history) < MaxOps
    /\ relationships' = add_relationship(relationships, relationship)
    /\ history' = Append(history,
                     Call("KnowledgeGraph::add_relationship", relationship))
    /\ ret' = Returned("KnowledgeGraph::add_relationship", relationship, Unit)
    /\ UNCHANGED <<entities, erVars, aiVars, extVars>>

\* A plausible slip: the lookup unwrapped (self.entities[id]), which panics
\* on a missing id: the call has no outcome there.
GetEntity_unwrapped(id) ==
    /\ id \in DOMAIN entities
    /\ ret' = Returned("KnowledgeGraph::get_entity", id, Some(entities[id]))
    /\ UNCHANGED <<kgVars, erVars, aiVars, history, extVars>>

GetEntity(id) ==
    /\ ret' = Returned("KnowledgeGraph::get_entity", id,
                       get_entity(entities, id))
    /\ UNCHANGED <<kgVars, erVars, aiVars, history, extVars>>

GetRelationships(entity_id) ==
    /\ ret' = Returned("KnowledgeGraph::get_relationships", entity_id,
                       get_relationships(relationships, entity_id))
    /\ UNCHANGED <<kgVars, erVars, aiVars, history, extVars>>

KGNext(Ents, Rels, Ids) ==
    \/ \E e \in Ents : AddEntity(e)
    \/ \E r \in Rels : AddRelationship(r)
    \/ \E id \in Ids : GetEntity(id)
    \/ \E id \in Ids : GetRelationships(id)

(***************************************************************************)
(* emotional_response.rs                                                   *)
(***************************************************************************)
\* enum Emotion
Emotion == {"Joy", "Trust", "Fear", "Surprise", "Sadness", "Disgust",
            "Anger", "Anticipation", "Neutral"}

\* A plausible slip: a transition check that keeps a frightened NPC
\* frightened until it is calmed to Neutral first.
set_emotion_validated(current, emotion) ==
    IF current = "Fear" /\ emotion # "Neutral" THEN current ELSE emotion

\* self.current_emotion = emotion
set_emotion(current, emotion) == emotion

\* &self.current_emotion
get_emotion(current) == current

\* A plausible slip: a trigger already remembered keeps its first emotion
\* (entry().or_insert()).
ER_record_memory_first_wins(mem, trigger, emotion) ==
    IF trigger \in DOMAIN mem THEN mem ELSE HashMapInsert(mem, trigger, emotion)

\* A plausible slip: the memory rebuilt on every write, holding the last
\* trigger only.
ER_record_memory_clearing(mem, trigger, emotion) ==
    HashMapInsert(HashMapNew, trigger, emotion)

\* self.memory.insert(trigger.to_string(), emotion)
ER_record_memory(mem, trigger, emotion) == HashMapInsert(mem, trigger, emotion)

\* self.memory.get(trigger)
ER_get_memory(mem, trigger) == HashMapGet(mem, trigger)

\* A plausible slip: two arms of the match with their strings exchanged.
ER_choose_action_swapped(current) ==
    CASE current = "Joy" -> "Dance"
      [] current = "Trust" -> "Collaborate"
      [] current = "Fear" -> "Investigate"
      [] current = "Surprise" -> "Hide"
      [] current = "Sadness" -> "Cry"
      [] current = "Disgust" -> "Reject"
      [] current = "Anger" -> "Shout"
      [] current = "Anticipation" -> "Prepare"
      [] current = "Neutral" -> "Observe"

\* match self.current_emotion { .. }
ER_choose_action(current) ==
    CASE current = "Joy" -> "Dance"
      [] current = "Trust" -> "Collaborate"
      [] current = "Fear" -> "Hide"
      [] current = "Surprise" -> "Investigate"
      [] current = "Sadness" -> "Cry"
      [] current = "Disgust" -> "Reject"
      [] current = "Anger" -> "Shout"
      [] current = "Anticipation" -> "Prepare"
      [] current = "Neutral" -> "Observe"


SetEmotion(emotion) ==
    /\ Len(history) < MaxOps
    /\ current_emotion' = set_emotion(current_emotion, emotion)
    /\ history' = Append(history, Call("EmotionalResponse::set_emotion", emotion))
    /\ ret' = Returned("EmotionalResponse::set_emotion", emotion, Unit)
    /\ UNCHANGED <<er_memory, kgVars, aiVars, extVars>>

GetEmotion ==
    /\ ret' = Returned("EmotionalResponse::get_emotion", Unit,
                       get_emotion(current_emotion))
    /\ UNCHANGED <<erVars, kgVars, aiVars, history, extVars>>

\* A plausible slip: recording a memory makes its emotion the current one.
ERRecordMemory_feeling(trigger, emotion) ==
    /\ Len(history) < MaxOps
    /\ er_memory' = ER_record_memory(er_memory, trigger, emotion)
    /\ current_emotion' = emotion
    /\ history' = Append(history, Call("EmotionalResponse::record_memory",
                                       <<trigger, emotion>>))
    /\ ret' = Returned("EmotionalResponse::record_memory",
                       <<trigger, emotion>>, Unit)
    /\ UNCHANGED <<kgVars, aiVars, extVars>>

ERRecordMemory(trigger, emotion) ==
    /\ Len(history) < MaxOps
    /\ er_memory' = ER_record_memory(er_memory, trigger, emotion)
    /\ history' = Append(history, Call("EmotionalResponse::record_memory",
                                       <<trigger, emotion>>))
    /\ ret' = Returned("EmotionalResponse::record_memory",
                       <<trigger, emotion>>, Unit)
    /\ UNCHANGED <<current_emotion, kgVars, aiVars, extVars>>

ERGetMemory(trigger) ==
    /\ ret' = Returned("EmotionalResponse::get_memory", trigger,
                       ER_get_memory(er_memory, trigger))
    /\ UNCHANGED <<erVars, kgVars, aiVars, history, extVars>>

ERChooseAction ==
    /\ ret' = Returned("EmotionalResponse::choose_action", Unit,
                       ER_choose_action(current_emotion))
    /\ UNCHANGED <<erVars, kgVars, aiVars, history, extVars>>

\* Records is a set of <<trigger, emotion>> pairs.
ERNext(Emos, Records, QTrigs) ==
    \/ \E e \in Emos : SetEmotion(e)
    \/ GetEmotion
    \/ \E r \in Records : ERRecordMemory(r[1], r[2])
    \/ \E t \in QTrigs : ERGetMemory(t)
    \/ ERChooseAction

(***************************************************************************)
(* adaptive_intelligence.rs                                                *)
(***************************************************************************)
\* struct Action { name, description }
Action(name, description) == [name |-> name, description |-> description]

\* A plausible slip: the label is normalised before it is stored.
update_state_normalised(current, new_state) ==
    IF new_state = "idle" THEN "Idle" ELSE new_state

\* self.current_state = new_state.to_string()
update_state(current, new_state) == new_state

\* &self.current_state
get_current_state(current) == current

\* format!("Action selected: {}", action.description)
format_action_selected(description) == "Action selected: " \o description

\* A plausible slip: the loop keeps the last match instead of returning at
\* the first.
RECURSIVE select_action_last_match(_, _, _)
select_action_last_match(acts, i, action_name) ==
    IF i < 1 THEN "Action not found"
    ELSE IF acts[i].name = action_name
         THEN format_action_selected(acts[i].description)
         ELSE select_action_last_match(acts, i - 1, action_name)

\* A plausible slip: a miss in the catalog reported with the other sentinel.
RECURSIVE select_action_miss_as_unavailable(_, _, _)
select_action_miss_as_unavailable(acts, i, action_name) ==
    IF i > Len(acts) THEN "No action available"
    ELSE IF acts[i].name = action_name
         THEN format_action_selected(acts[i].description)
         ELSE select_action_miss_as_unavailable(acts, i + 1, action_name)

\* for action in &self.actions { if action.name == action_name { return .. } }
\* "Action not found".to_string(): the loop from catalog position i on.
RECURSIVE select_action_from(_, _, _)
select_action_from(acts, i, action_name) ==
    IF i > Len(acts) THEN "Action not found"
    ELSE IF acts[i].name = action_name
         THEN format_action_selected(acts[i].description)
         ELSE select_action_from(acts, i + 1, action_name)

select_action_keeping_last(acts, action_name) ==
    select_action_last_match(acts, Len(acts), action_name)

select_action_unavailable(acts, action_name) ==
    select_action_miss_as_unavailable(acts, 1, action_name)

\* fn select_action(&self, action_name)
select_action(acts, action_name) == select_action_from(acts, 1, action_name)

\* A plausible slip: the fall-through arm looks the label up in the catalog.
AI_choose_action_lookup_label(current, acts) ==
    CASE current = "Idle" -> select_action(acts, "Rest")
      [] current = "Alert" -> select_action(acts, "Investigate")
      [] current = "Engaged" -> select_action(acts, "Talk")
      [] current = "Fleeing" -> select_action(acts, "Run")
      [] OTHER -> IF \E i \in 1..Len(acts) : acts[i].name = current
                  THEN select_action(acts, current)
                  ELSE "No action available"

\* match self.current_state.as_str() { .. }
AI_choose_action(current, acts) ==
    CASE current = "Idle" -> select_action(acts, "Rest")
      [] current = "Alert" -> select_action(acts, "Investigate")
      [] current = "Engaged" -> select_action(acts, "Talk")
      [] current = "Fleeing" -> select_action(acts, "Run")
      [] OTHER -> "No action available"

\* A plausible slip: a key already remembered keeps its first value.
AI_record_memory_first_wins(mem, key, value) ==
    IF key \in DOMAIN mem THEN mem ELSE HashMapInsert(mem, key, value)

\* self.memory.insert(key.to_string(), value.to_string())
AI_record_memory(mem, key, value) == HashMapInsert(mem, key, value)

\* self.memory.get(key)
AI_get_memory(mem, key) == HashMapGet(mem, key)

\* The inputs of the decision engine.
MappedStates == {"Idle", "Alert", "Engaged", "Fleeing"}
Labels == MappedStates \cup {"Unknown", "idle", "Rest"}
DesiredNames == {"Rest", "Investigate", "Talk", "Run"}
Descriptions == {"Engage in conversation.", "Flee from danger."}
\* Every desired name with one description, "Rest" and "Run" with both.
ActionInputs ==
    {Action(n, "Engage in conversation.") : n \in DesiredNames}
      \cup {Action("Rest", "Flee from danger."),
            Action("Run", "Flee from danger.")}
CatalogsUpTo(S, n) == UNION {[1..k -> S] : k \in 0..n}

UpdateState(new_state) ==
    /\ Len(history) < MaxOps
    /\ current_state' = update_state(current_state, new_state)
    /\ history' = Append(history,
                     Call("AdaptiveIntelligence::update_state", new_state))
    /\ ret' = Returned("AdaptiveIntelligence::update_state", new_state, Unit)
    /\ UNCHANGED <<ai_memory, actions, kgVars, erVars, extVars>>

\* A plausible slip: once an action is chosen the engine settles back to
\* "Idle" by itself.
AIChooseAction_settling ==
    /\ ret' = Returned("AdaptiveIntelligence::choose_action", Unit,
                       AI_choose_action(current_state, actions))
    /\ current_state' = "Idle"
    /\ UNCHANGED <<ai_memory, actions, kgVars, erVars, history, extVars>>

\* A plausible slip: actions used up, choose_action taking every action of
\* the name it looked up out of the catalog.
AIChooseAction_consuming ==
    /\ ret' = Returned("AdaptiveIntelligence::choose_action", Unit,
                       AI_choose_action(current_state, actions))
    /\ actions' = SelectSeq(actions, LAMBDA a :
                     AI_choose_action(current_state, <<a>>)
                        # format_action_selected(a.description))
    /\ UNCHANGED <<current_state, ai_memory, kgVars, erVars, history, extVars>>

\* A plausible slip: the choice consults the memory, an engine that remembers
\* a lost game choosing to run whatever its state.
AIChooseAction_remembering ==
    /\ ret' = Returned("AdaptiveIntelligence::choose_action", Unit,
                       IF AI_get_memory(ai_memory, "lost_game").some
                       THEN select_action(actions, "Run")
                       ELSE AI_choose_action(current_state, actions))
    /\ UNCHANGED <<aiVars, kgVars, erVars, history, extVars>>

AIChooseAction ==
    /\ ret' = Returned("AdaptiveIntelligence::choose_action", Unit,
                       AI_choose_action(current_state, actions))
    /\ UNCHANGED <<aiVars, kgVars, erVars, history, extVars>>

\* A plausible slip: one memory shared by the engine and the tracker, a note
\* recorded in the engine landing under the same key in the tracker too.
AIRecordMemory_shared(key, value) ==
    /\ Len(history) < MaxOps
    /\ ai_memory' = AI_record_memory(ai_memory, key, value)
    /\ er_memory' = HashMapInsert(er_memory, key, value)
    /\ history' = Append(history, Call("AdaptiveIntelligence::record_memory",
                                       <<key, value>>))
    /\ ret' = Returned("AdaptiveIntelligence::record_memory",
                       <<key, value>>, Unit)
    /\ UNCHANGED <<current_state, actions, kgVars, current_emotion, extVars>>

AIRecordMemory(key, value) ==
    /\ Len(history) < MaxOps
    /\ ai_memory' = AI_record_memory(ai_memory, key, value)
    /\ history' = Append(history, Call("AdaptiveIntelligence::record_memory",
                                       <<key, value>>))
    /\ ret' = Returned("AdaptiveIntelligence::record_memory",
                       <<key, value>>, Unit)
    /\ UNCHANGED <<current_state, actions, kgVars, erVars, extVars>>

AIGetMemory(key) ==
    /\ ret' = Returned("AdaptiveIntelligence::get_memory", key,
                       AI_get_memory(ai_memory, key))
    /\ UNCHANGED <<aiVars, kgVars, erVars, history, extVars>>

GetCurrentState ==
    /\ ret' = Returned("AdaptiveIntelligence::get_current_state", Unit,
                       get_current_state(current_state))
    /\ UNCHANGED <<aiVars, kgVars, erVars, history, extVars>>

\* The state machine of the engine.
AIStateNext(Labs) ==
    \/ \E l \in Labs : UpdateState(l)
    \/ AIChooseAction
    \/ GetCurrentState

\* The memory of the engine; Records is a set of <<key, value>> pairs.
AIMemoryNext(Records, QKeys) ==
    \/ \E r \in Records : AIRecordMemory(r[1], r[2])
    \/ \E k \in QKeys : AIGetMemory(k)

(***************************************************************************)
(* personality.rs                                                          *)
(*                                                                         *)
(* An f64 is a number of tenths or NaN.  Every comparison with NaN is      *)
(* false, as in IEEE 754.                                                  *)
(***************************************************************************)
F64(t) == [nan |-> FALSE, tenths |-> t]
NaN == [nan |-> TRUE, tenths |-> 0]

\* a < b on f64
f64_lt(a, b) == ~a.nan /\ ~b.nan /\ a.tenths < b.tenths

\* f64::clamp: if self < min { self = min } if self > max { self = max } self
f64_clamp(self, min, max) ==
    IF f64_lt(self, min) THEN min
    ELSE IF f64_lt(max, self) THEN max
    ELSE self

Traits == {"openness", "conscientiousness", "extraversion",
           "agreeableness", "neuroticism"}

\* Personality::new()
Personality_new == [t \in Traits |-> F64(5)]

\* self.openness = value.clamp(0.0, 1.0)
set_openness(p, value) ==
    [p EXCEPT !.openness = f64_clamp(value, F64(0), F64(10))]

\* self.conscientiousness = value.clamp(0.0, 1.0)
set_conscientiousness(p, value) ==
    [p EXCEPT !.conscientiousness = f64_clamp(value, F64(0), F64(10))]

\* self.extraversion = value.clamp(0.0, 1.0)
set_extraversion(p, value) ==
    [p EXCEPT !.extraversion = f64_clamp(value, F64(0), F64(10))]

\* self.agreeableness = value.clamp(0.0, 1.0)
set_agreeableness(p, value) ==
    [p EXCEPT !.agreeableness = f64_clamp(value, F64(0), F64(10))]

\* self.neuroticism = value.clamp(0.0, 1.0)
set_neuroticism(p, value) ==
    [p EXCEPT !.neuroticism = f64_clamp(value, F64(0), F64(10))]

\* The arguments of the setters: below, at the ends of, inside and above
\* [0.0, 1.0], and f64::NAN.
F64Inputs == {F64(-5), F64(0), F64(3), F64(5), F64(10), F64(15), NaN}

\* The setters are not counted in `history`: the profile has finitely many
\* states.
SetOpenness(value) ==
    /\ personality' = set_openness(personality, value)
    /\ ret' = Returned("Personality::set_openness", value, Unit)
    /\ UNCHANGED <<kgVars, erVars, aiVars, peer, history, dlgVars>>

SetConscientiousness(value) ==
    /\ personality' = set_conscientiousness(personality, value)
    /\ ret' = Returned("Personality::set_conscientiousness", value, Unit)
    /\ UNCHANGED <<kgVars, erVars, aiVars, peer, history, dlgVars>>

SetExtraversion(value) ==
    /\ personality' = set_extraversion(personality, value)
    /\ ret' = Returned("Personality::set_extraversion", value, Unit)
    /\ UNCHANGED <<kgVars, erVars, aiVars, peer, history, dlgVars>>

SetAgreeableness(value) ==
    /\ personality' = set_agreeableness(personality, value)
    /\ ret' = Returned("Personality::set_agreeableness", value, Unit)
    /\ UNCHANGED <<kgVars, erVars, aiVars, peer, history, dlgVars>>

SetNeuroticism(value) ==
    /\ personality' = set_neuroticism(personality, value)
    /\ ret' = Returned("Personality::set_neuroticism", value, Unit)
    /\ UNCHANGED <<kgVars, erVars, aiVars, peer, history, dlgVars>>

PersonalityNext(Values) ==
    \/ \E v \in Values : SetOpenness(v)
    \/ \E v \in Values : SetConscientiousness(v)
    \/ \E v \in Values : SetExtraversion(v)
    \/ \E v \in Values : SetAgreeableness(v)
    \/ \E v \in Values : SetNeuroticism(v)

(***************************************************************************)
(* dialogue_generation.rs                                                  *)
(*                                                                         *)
(* send_message is an async fn: calling it runs it to its first .await,    *)
(* and it is resumed when what it awaits is ready.  `request` is the       *)
(* future: where it is suspended (pc) and the locals it holds there.       *)
(***************************************************************************)
\* Result<T, E>, and the outcome of a call that panicked instead of returning.
Ok(v) == [tag |-> "Ok", value |-> v]
Err(kind, message) == [tag |-> "Err", kind |-> kind, message |-> message]
Panicked(message) == [tag |-> "panic", message |-> message]

\* std::env::var(key): the value of a variable that is set, Err otherwise.
env_var(e, key) ==
    IF key \in DOMAIN e THEN Ok(e[key])
    ELSE Err("VarError", "environment variable not found")

\* JSON values, by type; a document is its text and, when the text is JSON,
\* the object it denotes.
JString(v) == [type |-> "string", v |-> v]
JNumber(v) == [type |-> "number", v |-> v]
JArray == [type |-> "array"]
JObject == [type |-> "object"]
Document(text, json) == [text |-> text, json |-> json]

\* struct ApiResponse: the fields serde requires, and the JSON type of each
\* (x_groq is a serde_json::Value: any type, but not missing).
ApiResponse ==
    [id |-> {"string"}, object |-> {"string"}, created |-> {"number"},
     model |-> {"string"}, choices |-> {"array"}, usage |-> {"object"},
     system_fingerprint |-> {"string"},
     x_groq |-> {"string", "number", "array", "object", "null"}]

\* serde_json::from_slice::<ApiResponse>: fails on text that is not JSON, on a
\* missing field and on a field of the wrong type; fields the struct does not
\* name are ignored.
from_json(document) ==
    IF ~document.json.some
    THEN Err("reqwest::Error", "error decoding response body")
    ELSE LET object == document.json.value
         IN IF \A f \in DOMAIN ApiResponse :
                  f \in DOMAIN object /\ object[f].type \in ApiResponse[f]
            THEN Ok([f \in DOMAIN ApiResponse |-> object[f]])
            ELSE Err("reqwest::Error", "error decoding response body")

\* What arrives for a request: the status line, the body the server sent,
\* and whether the body can be read to its end (the connection may break
\* after the status line).
Response(status, body, readable) ==
    [status |-> status, body |-> body, readable |-> readable]

\* A plausible slip: everything below 400 taken for a success.
is_success_below_400(status) == status < 400

\* StatusCode::is_success: 200..=299
is_success(status) == 200 <= status /\ status < 300

\* StatusCode::canonical_reason
canonical_reason(status) ==
    CASE status = 200 -> Some("OK")
      [] status = 304 -> Some("Not Modified")
      [] status = 401 -> Some("Unauthorized")
      [] status = 500 -> Some("Internal Server Error")
      [] OTHER -> None

\* impl Display for StatusCode: the code, a space, the canonical reason.
status_to_string(status) ==
    ToString(status) \o " " \o
       (IF canonical_reason(status).some THEN canonical_reason(status).value
        ELSE "<unknown status code>")

\* Response::text().await
response_text(response) ==
    IF response.readable THEN Ok(response.body.text)
    ELSE Err("reqwest::Error", "error reading response body")

\* Response::json::<ApiResponse>().await
response_json(response) ==
    IF response.readable THEN from_json(response.body)
    ELSE Err("reqwest::Error", "error reading response body")

\* Result::unwrap_or_else(|_| default)
unwrap_or_else(result, default) ==
    IF result.tag = "Ok" THEN result.value ELSE default

\* format!("Request failed with status: {} - {}", status, error_message)
format_request_failed(status, error_message) ==
    "Request failed with status: " \o status_to_string(status)
       \o " - " \o error_message

\* The request send_message builds (lines 60-75).
http_request(api_key, input) ==
    [method |-> "POST",
     url |-> "https://api.groq.com/openai/v1/chat/completions",
     authorization |-> "Bearer " \o api_key,
     content_type |-> "application/json",
     json |-> [messages |-> <<[role |-> "user", content |-> input]>>,
               model |-> "llama3-8b-8192"]]

\* The success branch (lines 81-82): the body, deserialised.
success_branch(response) == response_json(response)

\* The failure branch (lines 85-87): the status and the body's text, or a
\* fixed text when the body cannot be read, as an error message.
failure_branch(response) ==
    Err("String",
        format_request_failed(
           response.status,
           unwrap_or_else(response_text(response),
                          "Failed to read error message")))

\* No call of send_message has been made.
NoRequest ==
    [pc |-> "idle", input |-> "", task |-> "caller",
     http |-> None, response |-> None]

\* send_message(input), polled to its first .await (lines 55-77).  Without
\* GROQ_API_KEY, expect panics: the panic unwinds the task that polls the
\* future, which is the NPC's own task when that task awaits the call and
\* another one when the call was spawned onto a task of its own.
SendMessage(input, task) ==
    /\ caller = "running"
    /\ request.pc \in {"idle", "returned", "panicked", "dropped"}
    /\ LET api_key == env_var(env, "GROQ_API_KEY")
       IN IF api_key.tag = "Ok"
          THEN /\ request' = [pc |-> "send", input |-> input, task |-> task,
                              http |-> Some(http_request(api_key.value, input)),
                              response |-> None]
               /\ UNCHANGED <<caller, ret>>
          ELSE /\ request' = [pc |-> "panicked", input |-> input,
                              task |-> task, http |-> None, response |-> None]
               /\ caller' = IF task = "caller" THEN "panicked" ELSE caller
               /\ ret' = Returned("send_message", input,
                                  Panicked("GROQ_API_KEY not set: NotPresent"))
    /\ UNCHANGED <<kgVars, erVars, aiVars, peer, personality, env, history>>

\* .send().await? fails (line 77): the error is returned as it is.
SendFails ==
    /\ request.pc = "send"
    /\ request' = [request EXCEPT !.pc = "returned"]
    /\ ret' = Returned("send_message", request.input,
                       Err("reqwest::Error", "error sending request"))
    /\ UNCHANGED <<kgVars, erVars, aiVars, peer, personality, env, caller,
                   history>>

\* .send().await? yields a response (line 77); the status decides which body
\* read the future awaits next (line 80).
SendCompletes(response) ==
    /\ request.pc = "send"
    /\ request' = [request EXCEPT
                      !.pc = IF is_success(response.status) THEN "json"
                             ELSE "text",
                      !.response = Some(response)]
    /\ UNCHANGED <<kgVars, erVars, aiVars, peer, personality, env, caller,
                   history, ret>>

\* response.json().await? is ready (lines 81-82).
JsonCompletes ==
    /\ request.pc = "json"
    /\ request' = [request EXCEPT !.pc = "returned"]
    /\ ret' = Returned("send_message", request.input,
                       success_branch(request.response.value))
    /\ UNCHANGED <<kgVars, erVars, aiVars, peer, personality, env, caller,
                   history>>

\* response.text().await is ready (lines 85-87).
TextCompletes ==
    /\ request.pc = "text"
    /\ request' = [request EXCEPT !.pc = "returned"]
    /\ ret' = Returned("send_message", request.input,
                       failure_branch(request.response.value))
    /\ UNCHANGED <<kgVars, erVars, aiVars, peer, personality, env, caller,
                   history>>

\* The future is dropped while suspended: it is never resumed and returns
\* nothing.
DropFuture ==
    /\ request.pc \in {"send", "json", "text"}
    /\ request' = [request EXCEPT !.pc = "dropped"]
    /\ UNCHANGED <<kgVars, erVars, aiVars, peer, personality, env, caller,
                   history, ret>>

DialogueNext(Inputs, Tasks, Responses) ==
    \/ \E i \in Inputs, t \in Tasks : SendMessage(i, t)
    \/ SendFails
    \/ \E r \in Responses : SendCompletes(r)
    \/ JsonCompletes
    \/ TextCompletes
    \/ DropFuture

(***************************************************************************)
(* A second NPC.  Its structs are other values of the same types: each     *)
(* method is the same function, applied to the fields of `peer`.           *)
(***************************************************************************)
\* KnowledgeGraph::new(), EmotionalResponse::new(), AdaptiveIntelligence::new
Peer_new(catalog) ==
    [entities |-> HashMapNew, relationships |-> <<>>,
     current_emotion |-> "Neutral", er_memory |-> HashMapNew,
     current_state |-> "Idle", ai_memory |-> HashMapNew, actions |-> catalog]

PeerCatalog == <<Action("Talk", "Flee from danger.")>>

firstVars == <<kgVars, erVars, aiVars, personality, dlgVars>>

PeerAddEntity(entity) ==
    /\ Len(history) < MaxOps
    /\ peer' = [peer EXCEPT !.entities = add_entity(@, entity)]
    /\ history' = Append(history,
                     Call("peer KnowledgeGraph::add_entity", entity))
    /\ ret' = Returned("peer KnowledgeGraph::add_entity", entity, Unit)
    /\ UNCHANGED firstVars

PeerAddRelationship(relationship) ==
    /\ Len(history) < MaxOps
    /\ peer' = [peer EXCEPT
                  !.relationships = add_relationship(@, relationship)]
    /\ history' = Append(history,
                     Call("peer KnowledgeGraph::add_relationship",
                          relationship))
    /\ ret' = Returned("peer KnowledgeGraph::add_relationship",
                       relationship, Unit)
    /\ UNCHANGED firstVars

PeerGetEntity(id) ==
    /\ ret' = Returned("peer KnowledgeGraph::get_entity", id,
                       get_entity(peer.entities, id))
    /\ UNCHANGED <<firstVars, peer, history>>

PeerGetRelationships(entity_id) ==
    /\ ret' = Returned("peer KnowledgeGraph::get_relationships", entity_id,
                       get_relationships(peer.relationships, entity_id))
    /\ UNCHANGED <<firstVars, peer, history>>

\* A plausible slip: the current emotion a process-wide singleton, set for
\* every agent by a set_emotion on any one of them.
PeerSetEmotion_global(emotion) ==
    /\ Len(history) < MaxOps
    /\ peer' = [peer EXCEPT !.current_emotion = set_emotion(@, emotion)]
    /\ current_emotion' = set_emotion(current_emotion, emotion)
    /\ history' = Append(history,
                     Call("peer EmotionalResponse::set_emotion", emotion))
    /\ ret' = Returned("peer EmotionalResponse::set_emotion", emotion, Unit)
    /\ UNCHANGED <<kgVars, er_memory, aiVars, personality, dlgVars>>

PeerSetEmotion(emotion) ==
    /\ Len(history) < MaxOps
    /\ peer' = [peer EXCEPT !.current_emotion = set_emotion(@, emotion)]
    /\ history' = Append(history,
                     Call("peer EmotionalResponse::set_emotion", emotion))
    /\ ret' = Returned("peer EmotionalResponse::set_emotion", emotion, Unit)
    /\ UNCHANGED firstVars

PeerGetEmotion ==
    /\ ret' = Returned("peer EmotionalResponse::get_emotion", Unit,
                       get_emotion(peer.current_emotion))
    /\ UNCHANGED <<firstVars, peer, history>>

PeerERRecordMemory(trigger, emotion) ==
    /\ Len(history) < MaxOps
    /\ peer' = [peer EXCEPT
                  !.er_memory = ER_record_memory(@, trigger, emotion)]
    /\ history' = Append(history,
                     Call("peer EmotionalResponse::record_memory",
                          <<trigger, emotion>>))
    /\ ret' = Returned("peer EmotionalResponse::record_memory",
                       <<trigger, emotion>>, Unit)
    /\ UNCHANGED firstVars

PeerERGetMemory(trigger) ==
    /\ ret' = Returned("peer EmotionalResponse::get_memory", trigger,
                       ER_get_memory(peer.er_memory, trigger))
    /\ UNCHANGED <<firstVars, peer, history>>

PeerERChooseAction ==
    /\ ret' = Returned("peer EmotionalResponse::choose_action", Unit,
                       ER_choose_action(peer.current_emotion))
    /\ UNCHANGED <<firstVars, peer, history>>

PeerUpdateState(new_state) ==
    /\ Len(history) < MaxOps
    /\ peer' = [peer EXCEPT !.current_state = update_state(@, new_state)]
    /\ history' = Append(history,
                     Call("peer AdaptiveIntelligence::update_state",
                          new_state))
    /\ ret' = Returned("peer AdaptiveIntelligence::update_state",
                       new_state, Unit)
    /\ UNCHANGED firstVars

PeerAIChooseAction ==
    /\ ret' = Returned("peer AdaptiveIntelligence::choose_action", Unit,
                       AI_choose_action(peer.current_state, peer.actions))
    /\ UNCHANGED <<firstVars, peer, history>>

PeerAIRecordMemory(key, value) ==
    /\ Len(history) < MaxOps
    /\ peer' = [peer EXCEPT !.ai_memory = AI_record_memory(@, key, value)]
    /\ history' = Append(history,
                     Call("peer AdaptiveIntelligence::record_memory",
                          <<key, value>>))
    /\ ret' = Returned("peer AdaptiveIntelligence::record_memory",
                       <<key, value>>, Unit)
    /\ UNCHANGED firstVars

PeerAIGetMemory(key) ==
    /\ ret' = Returned("peer AdaptiveIntelligence::get_memory", key,
                       AI_get_memory(peer.ai_memory, key))
    /\ UNCHANGED <<firstVars, peer, history>>

PeerGetCurrentState ==
    /\ ret' = Returned("peer AdaptiveIntelligence::get_current_state", Unit,
                       get_current_state(peer.current_state))
    /\ UNCHANGED <<firstVars, peer, history>>

PeerNext(Ents, Rels, Ids, Emos, EmoRecords, QTrigs, Labs, Records, QKeys) ==
    \/ \E e \in Ents : PeerAddEntity(e)
    \/ \E r \in Rels : PeerAddRelationship(r)
    \/ \E id \in Ids : PeerGetEntity(id)
    \/ \E id \in Ids : PeerGetRelationships(id)
    \/ \E e \in Emos : PeerSetEmotion(e)
    \/ PeerGetEmotion
    \/ \E r \in EmoRecords : PeerERRecordMemory(r[1], r[2])
    \/ \E t \in QTrigs : PeerERGetMemory(t)
    \/ PeerERChooseAction
    \/ \E l \in Labs : PeerUpdateState(l)
    \/ PeerAIChooseAction
    \/ \E r \in Records : PeerAIRecordMemory(r[1], r[2])
    \/ \E k \in QKeys : PeerAIGetMemory(k)
    \/ PeerGetCurrentState

(***************************************************************************)
(* Construction: KnowledgeGraph::new(), EmotionalResponse::new(),          *)
(* Personality::new() and AdaptiveIntelligence::new(actions) with a        *)
(* catalog among Catalogs, for the first NPC; the same for the second.     *)
(***************************************************************************)
InitNPC(Catalogs) ==
    /\ entities = HashMapNew
    /\ relationships = <<>>
    /\ current_emotion = "Neutral"
    /\ er_memory = HashMapNew
    /\ current_state = "Idle"
    /\ ai_memory = HashMapNew
    /\ actions \in Catalogs
    /\ peer = Peer_new(PeerCatalog)
    /\ personality = Personality_new
    /\ history = <<>>
    /\ ret = Returned("new", Unit, Unit)

\* The same, in a process without GROQ_API_KEY that has made no request.
InitWith(Catalogs) ==
    /\ InitNPC(Catalogs)
    /\ env = HashMapNew
    /\ request = NoRequest
    /\ caller = "running"

\* The knowledge graph alone.
InitKG == InitWith({<<>>})
NextKG == KGNext(EntityInputs, RelationshipInputs, QueryIds)
SpecKG == InitKG /\ [][NextKG]_vars

\* The emotional response tracker alone.
InitER == InitWith({<<>>})
NextER == ERNext(Emotion, {"lost_game"} \X Emotion,
                 {"lost_game", "never_recorded"})
SpecER == InitER /\ [][NextER]_vars

\* The state machine of the decision engine alone, over every catalog of at
\* most MaxCatalog actions.
InitAI == InitWith(CatalogsUpTo(ActionInputs, MaxCatalog))
NextAI == AIStateNext(Labels)
SpecAI == InitAI /\ [][NextAI]_vars

\* The decision engine alone with its memory, over every catalog of at most
\* MaxCatalog actions and fewer labels.
EngineLabels == {"Engaged", "Unknown"}
EngineRecords ==
    {<<"lost_game", "fled">>, <<"lost_game", "spoke to player">>,
     <<"last_interaction", "spoke to player">>}
EngineQueryKeys == {"lost_game", "last_interaction", "never_recorded"}
InitEngine == InitWith(CatalogsUpTo(ActionInputs, MaxCatalog))
NextEngine ==
    \/ AIStateNext(EngineLabels)
    \/ AIMemoryNext(EngineRecords, EngineQueryKeys)
SpecEngine == InitEngine /\ [][NextEngine]_vars

\* One NPC owning a knowledge graph, a tracker and an engine built with the
\* catalog of the crate's examples, over fewer inputs per component.  The key
\* "lost_game" is recorded in both memories.
AgentEntities ==
    {Entity("a", HashMapNew), Entity("a", [name |-> "x"])}
AgentRelationships == {Relationship("a", "b", "friend", HashMapNew)}
AgentQueryIds == {"a", "c"}
AgentEmotions == {"Joy", "Sadness"}
AgentEmotionRecords ==
    {<<"lost_game", "Sadness">>, <<"lost_game", "Joy">>,
     <<"won_game", "Joy">>}
AgentQueryTriggers == {"lost_game", "won_game", "never_recorded"}
AgentLabels == {"Engaged", "Unknown"}
AgentRecords ==
    {<<"lost_game", "fled">>, <<"lost_game", "spoke to player">>,
     <<"last_interaction", "spoke to player">>}
AgentQueryKeys == {"lost_game", "last_interaction", "never_recorded"}
AgentCatalogs ==
    {<<Action("Talk", "Engage in conversation."),
       Action("Run", "Flee from danger.")>>}

Init == InitWith(AgentCatalogs)
Next ==
    \/ KGNext(AgentEntities, AgentRelationships, AgentQueryIds)
    \/ ERNext(AgentEmotions, AgentEmotionRecords, AgentQueryTriggers)
    \/ AIStateNext(AgentLabels)
    \/ AIMemoryNext(AgentRecords, AgentQueryKeys)
Spec == Init /\ [][Next]_vars

\* Two agents driven with the same ids and keys, their calls interleaved in
\* every order.
TwinEntities == {Entity("a", [name |-> "x"])}
TwinRelationships == {Relationship("a", "b", "friend", HashMapNew)}
TwinQueryIds == {"a"}
TwinEmotions == {"Joy"}
TwinEmotionRecords == {<<"lost_game", "Sadness">>}
TwinQueryTriggers == {"lost_game"}
TwinLabels == {"Engaged"}
TwinRecords == {<<"lost_game", "fled">>}
TwinQueryKeys == {"lost_game"}

InitAgents == InitWith(AgentCatalogs)
NextAgents ==
    \/ KGNext(TwinEntities, TwinRelationships, TwinQueryIds)
    \/ ERNext(TwinEmotions, TwinEmotionRecords, TwinQueryTriggers)
    \/ AIStateNext(TwinLabels)
    \/ AIMemoryNext(TwinRecords, TwinQueryKeys)
    \/ PeerNext(TwinEntities, TwinRelationships, TwinQueryIds,
                TwinEmotions, TwinEmotionRecords, TwinQueryTriggers,
                TwinLabels, TwinRecords, TwinQueryKeys)
SpecAgents == InitAgents /\ [][NextAgents]_vars

\* The personality alone, its setters called with values below, inside and
\* above the interval, its ends, and NaN.
InitPersonality == InitWith({<<>>})
NextPersonality == PersonalityNext(F64Inputs)
SpecPersonality == InitPersonality /\ [][NextPersonality]_vars

\* One NPC and its dialogue requests: the process has GROQ_API_KEY or not;
\* each response has a status on one side or the other of the success range
\* and a body that is the response object, nearly so, or something else, and
\* that can or cannot be read; the NPC's task calls its structs' methods
\* between the steps of the request, as long as it runs.
Environments == {HashMapNew, [GROQ_API_KEY |-> "gsk_1"]}
DialogueInputs == {"Hello"}
Tasks == {"caller", "spawned"}
Statuses == {200, 299, 304, 500}
ResponseObject ==
    [id |-> JString("chatcmpl-1"), object |-> JString("chat.completion"),
     created |-> JNumber(1730000000), model |-> JString("llama3-8b-8192"),
     choices |-> JArray, usage |-> JObject,
     system_fingerprint |-> JString("fp_1"), x_groq |-> JObject]
Documents ==
    {Document("response object", Some(ResponseObject)),
     Document("response object with service_tier",
              Some([f \in DOMAIN ResponseObject \cup {"service_tier"} |->
                       IF f = "service_tier" THEN JString("on_demand")
                       ELSE ResponseObject[f]])),
     Document("response object without x_groq",
              Some([f \in DOMAIN ResponseObject \ {"x_groq"} |->
                       ResponseObject[f]])),
     Document("response object with created as a string",
              Some([ResponseObject EXCEPT !.created = JString("today")])),
     Document("<html>Bad Gateway</html>", None)}
Responses ==
    {Response(st, b, r) : st \in Statuses, b \in Documents, r \in BOOLEAN}

InitDialogue ==
    /\ InitNPC(AgentCatalogs)
    /\ env \in Environments
    /\ request = NoRequest
    /\ caller = "running"
\* A call the NPC's task makes on one of its structs: the task has to run.
NPCStep ==
    /\ caller = "running"
    /\ \/ \E e \in TwinEntities : AddEntity(e)
       \/ \E id \in TwinQueryIds : GetEntity(id)
       \/ \E e \in TwinEmotions : SetEmotion(e)
       \/ GetEmotion
       \/ \E l \in TwinLabels : UpdateState(l)
       \/ AIChooseAction
NextDialogue ==
    \/ DialogueNext(DialogueInputs, Tasks, Responses)
    \/ NPCStep
SpecDialogue == InitDialogue /\ [][NextDialogue]_vars

(***************************************************************************)
(* What the history says the knowledge graph must hold.                    *)
(***************************************************************************)
\* The positions of the add_entity calls made with this id.
AddedAt(id) ==
    {i \in 1..Len(history) :
        /\ history[i].op = "KnowledgeGraph::add_entity"
        /\ history[i].arg.id = id}

\* The entity most recently passed to add_entity with this id, if any.
LastAdded(id) ==
    IF AddedAt(id) = {} THEN None ELSE Some(history[Max(AddedAt(id))].arg)

\* The positions of the add_relationship calls whose relationship has x as
\* its source or as its target.
TouchingAt(x) ==
    {i \in 1..Len(history) :
        /\ history[i].op = "KnowledgeGraph::add_relationship"
        /\ (history[i].arg.source = x \/ history[i].arg.target = x)}

\* The k-th smallest element of a set of numbers.
KthOf(S, k) == CHOOSE i \in S : Cardinality({j \in S : j <= i}) = k

\* res lists the relationships inserted at the positions S, one entry per
\* position, in the order of insertion.
ListsInsertedAt(res, S) ==
    /\ Len(res) = Cardinality(S)
    /\ \A k \in 1..Len(res) : res[k] = history[KthOf(S, k)].arg

\* C1: get_entity(id) returns the entity most recently passed to add_entity
\* with that id, whole (id and property map, nothing of an earlier entity of
\* the same id merged in), and absence for an id never inserted; both for the
\* lookup in the current state and for the value a get_entity call returned.
C1_GetEntityReturnsLastInserted ==
    /\ \A id \in QueryIds : get_entity(entities, id) = LastAdded(id)
    /\ ret.op = "KnowledgeGraph::get_entity" => ret.val = LastAdded(ret.arg)

\* C1 witness: get_entity returned the second of two entities inserted under
\* one id, the first of which had a property the second has not, with a
\* relationship inserted as well.
C1_Witness ==
    /\ ret.op = "KnowledgeGraph::get_entity"
    /\ ret.val.some
    /\ \E i \in AddedAt(ret.arg) :
          /\ i < Max(AddedAt(ret.arg))
          /\ \E p \in DOMAIN history[i].arg.properties :
                p \notin DOMAIN ret.val.value.properties
    /\ \E i \in 1..Len(history) :
          history[i].op = "KnowledgeGraph::add_relationship"

\* C2: get_relationships(x) returns exactly the inserted relationships whose
\* source or target is x, each insertion once, in insertion order; both for
\* the query in the current state and for the value a call returned.
C2_GetRelationshipsExact ==
    /\ \A x \in QueryIds :
          ListsInsertedAt(get_relationships(relationships, x), TouchingAt(x))
    /\ ret.op = "KnowledgeGraph::get_relationships" =>
          ListsInsertedAt(ret.val, TouchingAt(ret.arg))

\* C2 witness: get_relationships returned one relationship twice, inserted
\* twice around a relationship that touches the id at neither end; the
\* returned relationship has the id as its target only.
C2_Witness ==
    /\ ret.op = "KnowledgeGraph::get_relationships"
    /\ Len(ret.val) = 2
    /\ ret.val[1] = ret.val[2]
    /\ ret.val[1].target = ret.arg
    /\ ret.val[1].source # ret.arg
    /\ Len(relationships) = 3
    /\ relationships[2].source # ret.arg
    /\ relationships[2].target # ret.arg

(***************************************************************************)
(* What the history says the decision engine must do.                      *)
(***************************************************************************)
UpdatesAt ==
    {i \in 1..Len(history) :
        history[i].op = "AdaptiveIntelligence::update_state"}

\* The label of the most recent update_state, "Idle" when there was none.
LastLabel ==
    IF UpdatesAt = {} THEN "Idle" ELSE history[Max(UpdatesAt)].arg

\* The catalog positions of the actions called name.
NamedAt(name) == {i \in 1..Len(actions) : actions[i].name = name}

\* The state -> desired action name table of the specification.
DesiredNameOf(label) ==
    CASE label = "Idle" -> "Rest"
      [] label = "Alert" -> "Investigate"
      [] label = "Engaged" -> "Talk"
      [] label = "Fleeing" -> "Run"

Min(S) == CHOOSE n \in S : \A m \in S : n <= m

\* C3: in a state other than exactly "Idle", "Alert", "Engaged", "Fleeing",
\* choose_action returns "No action available" whatever the catalog holds.
C3_UnmappedStateNoActionAvailable ==
    current_state \notin {"Idle", "Alert", "Engaged", "Fleeing"} =>
        /\ AI_choose_action(current_state, actions) = "No action available"
        /\ ret.op = "AdaptiveIntelligence::choose_action" =>
              ret.val = "No action available"

\* C3 witness: choose_action returned the sentinel in state "Rest" (the
\* desired name of Idle, not a state) with an action named "Rest" in the
\* catalog.
C3_Witness ==
    /\ ret.op = "AdaptiveIntelligence::choose_action"
    /\ current_state = "Rest"
    /\ NamedAt(current_state) # {}
    /\ ret.val = "No action available"

\* C4: in state Idle, Alert, Engaged or Fleeing with at least one action of
\* the desired name in the catalog, choose_action returns
\* "Action selected: " and the description of the first such action.
C4_FirstMatchSelected ==
    (current_state \in {"Idle", "Alert", "Engaged", "Fleeing"}
       /\ NamedAt(DesiredNameOf(current_state)) # {}) =>
        LET first == Min(NamedAt(DesiredNameOf(current_state)))
            expected == "Action selected: " \o actions[first].description
        IN /\ AI_choose_action(current_state, actions) = expected
           /\ ret.op = "AdaptiveIntelligence::choose_action" =>
                 ret.val = expected

\* C4 witness: choose_action returned the description of the first of two
\* actions named "Run" whose descriptions differ.
C4_Witness ==
    /\ ret.op = "AdaptiveIntelligence::choose_action"
    /\ current_state = "Fleeing"
    /\ Len(actions) = 2
    /\ actions[1].name = "Run"
    /\ actions[2].name = "Run"
    /\ actions[1].description # actions[2].description
    /\ ret.val = "Action selected: " \o actions[1].description

\* C5: in state Idle, Alert, Engaged or Fleeing with no action of the desired
\* name in the catalog, choose_action returns "Action not found": not
\* "No action available", and no "Action selected: ..." string.
C5_MissIsActionNotFound ==
    (current_state \in {"Idle", "Alert", "Engaged", "Fleeing"}
       /\ NamedAt(DesiredNameOf(current_state)) = {}) =>
        /\ AI_choose_action(current_state, actions) = "Action not found"
        /\ ret.op = "AdaptiveIntelligence::choose_action" =>
              /\ ret.val = "Action not found"
              /\ ret.val # "No action available"
              /\ \A d \in Descriptions : ret.val # "Action selected: " \o d

\* C5 witness: choose_action returned "Action not found" in state Alert with
\* a catalog that is not empty and names no "Investigate".
C5_Witness ==
    /\ ret.op = "AdaptiveIntelligence::choose_action"
    /\ current_state = "Alert"
    /\ Len(actions) >= 1
    /\ NamedAt("Investigate") = {}
    /\ ret.val = "Action not found"

\* C9: the state is "Idle" until the first update_state; get_current_state is
\* the label of the last update_state; choose_action returns what a new
\* engine with the same catalog returns after one update_state with that
\* label; and from every state every label can be entered.
C9_StateIsLastLabel ==
    /\ get_current_state(current_state) = LastLabel
    /\ ret.op = "AdaptiveIntelligence::get_current_state" =>
          ret.val = LastLabel
    /\ AI_choose_action(current_state, actions)
          = AI_choose_action(update_state("Idle", LastLabel), actions)
    /\ ret.op = "AdaptiveIntelligence::choose_action" =>
          ret.val = AI_choose_action(update_state("Idle", LastLabel), actions)
    /\ Len(history) < MaxOps =>
          \A l \in Labels : ENABLED (UpdateState(l) /\ current_state' = l)

\* C9 witness: choose_action selected an action in state Engaged, entered
\* from the unmapped state "Unknown".
C9_Witness ==
    /\ ret.op = "AdaptiveIntelligence::choose_action"
    /\ Cardinality(UpdatesAt) >= 2
    /\ history[Min(UpdatesAt)].arg = "Unknown"
    /\ LastLabel = "Engaged"
    /\ NamedAt("Talk") # {}
    /\ ret.val = "Action selected: " \o actions[Min(NamedAt("Talk"))].description

(***************************************************************************)
(* What the history says the emotional response tracker must do.           *)
(***************************************************************************)
SetsAt ==
    {i \in 1..Len(history) : history[i].op = "EmotionalResponse::set_emotion"}

\* The argument of the most recent set_emotion, Neutral when there was none.
LastSetEmotion ==
    IF SetsAt = {} THEN "Neutral" ELSE history[Max(SetsAt)].arg

\* The emotion -> action table of the specification.
EmotionActionTable ==
    [Joy |-> "Dance", Trust |-> "Collaborate", Fear |-> "Hide",
     Surprise |-> "Investigate", Sadness |-> "Cry", Disgust |-> "Reject",
     Anger |-> "Shout", Anticipation |-> "Prepare", Neutral |-> "Observe"]

\* C6: choose_action returns the table's entry for the current emotion, and
\* every call returns the entry of the most recent set_emotion (Neutral when
\* there was none), so calls with no set_emotion between them agree.
C6_EmotionActionTable ==
    /\ DOMAIN EmotionActionTable = Emotion
    /\ ER_choose_action(current_emotion) = EmotionActionTable[current_emotion]
    /\ ret.op = "EmotionalResponse::choose_action" =>
          ret.val = EmotionActionTable[LastSetEmotion]

\* C6 witness: choose_action returned "Investigate" for Surprise, set before
\* a later record_memory call.
C6_Witness ==
    /\ ret.op = "EmotionalResponse::choose_action"
    /\ LastSetEmotion = "Surprise"
    /\ SetsAt # {}
    /\ Max(SetsAt) < Len(history)
    /\ ret.val = "Investigate"

\* C7: the emotion is Neutral until the first set_emotion; get_emotion
\* returns the argument of the most recent set_emotion; and from every
\* current emotion set_emotion(X) is enabled and leaves X current, for each
\* of the nine emotions.
C7_EmotionIsLastSet ==
    /\ get_emotion(current_emotion) = LastSetEmotion
    /\ ret.op = "EmotionalResponse::get_emotion" => ret.val = LastSetEmotion
    /\ current_emotion \in Emotion
    /\ Len(history) < MaxOps =>
          \A X \in Emotion : ENABLED (SetEmotion(X) /\ current_emotion' = X)

\* C7 witness: get_emotion returned Joy, set directly after Fear.
C7_Witness ==
    /\ ret.op = "EmotionalResponse::get_emotion"
    /\ Cardinality(SetsAt) >= 2
    /\ history[Min(SetsAt)].arg = "Fear"
    /\ ret.val = "Joy"

(***************************************************************************)
(* What the history says the two memories must hold.                       *)
(***************************************************************************)
\* The positions of the calls of op that recorded key.
RecordedAt(op, key) ==
    {i \in 1..Len(history) : history[i].op = op /\ history[i].arg[1] = key}

\* The value most recently recorded for key by the calls of op, if any.
LastRecorded(op, key) ==
    IF RecordedAt(op, key) = {} THEN None
    ELSE Some(history[Max(RecordedAt(op, key))].arg[2])

\* C8: in the engine's memory and in the tracker's memory, get_memory(k) is
\* the value of the most recent record_memory(k, v) of that store, and
\* absence for a key never recorded there; both for the lookup in the
\* current state and for the value a get_memory call returned.
C8_MemoryLastWriteWins ==
    /\ \A k \in AgentQueryKeys :
          AI_get_memory(ai_memory, k)
             = LastRecorded("AdaptiveIntelligence::record_memory", k)
    /\ \A t \in AgentQueryTriggers :
          ER_get_memory(er_memory, t)
             = LastRecorded("EmotionalResponse::record_memory", t)
    /\ ret.op = "AdaptiveIntelligence::get_memory" =>
          ret.val = LastRecorded("AdaptiveIntelligence::record_memory", ret.arg)
    /\ ret.op = "EmotionalResponse::get_memory" =>
          ret.val = LastRecorded("EmotionalResponse::record_memory", ret.arg)

\* C8 witness: the engine's get_memory returned the second of two different
\* values recorded for one key, while the tracker has a trigger recorded too.
C8_Witness ==
    /\ ret.op = "AdaptiveIntelligence::get_memory"
    /\ ret.val.some
    /\ LET at == RecordedAt("AdaptiveIntelligence::record_memory", ret.arg)
       IN /\ Cardinality(at) = 2
          /\ history[Min(at)].arg[2] # history[Max(at)].arg[2]
          /\ ret.val.value = history[Max(at)].arg[2]
    /\ DOMAIN er_memory # {}

(***************************************************************************)
(* Totality.                                                               *)
(***************************************************************************)
\* The &self methods are enabled for every input.
ReadsEnabled ==
    /\ \A id \in AgentQueryIds :
          ENABLED GetEntity(id) /\ ENABLED GetRelationships(id)
    /\ ENABLED GetEmotion
    /\ ENABLED ERChooseAction
    /\ \A t \in AgentQueryTriggers : ENABLED ERGetMemory(t)
    /\ ENABLED AIChooseAction
    /\ ENABLED GetCurrentState
    /\ \A k \in AgentQueryKeys : ENABLED AIGetMemory(k)

\* The &mut self methods are enabled for every input.
WritesEnabled ==
    /\ \A e \in AgentEntities : ENABLED AddEntity(e)
    /\ \A r \in AgentRelationships : ENABLED AddRelationship(r)
    /\ \A e \in AgentEmotions : ENABLED SetEmotion(e)
    /\ \A r \in AgentEmotionRecords : ENABLED ERRecordMemory(r[1], r[2])
    /\ \A l \in AgentLabels : ENABLED UpdateState(l)
    /\ \A r \in AgentRecords : ENABLED AIRecordMemory(r[1], r[2])

\* What the last call returned is a value of the method's return type, and a
\* miss is absence or one of the two sentinels.
ReturnedInType ==
    /\ ret.op \in {"KnowledgeGraph::add_entity",
                   "KnowledgeGraph::add_relationship",
                   "EmotionalResponse::set_emotion",
                   "EmotionalResponse::record_memory",
                   "AdaptiveIntelligence::update_state",
                   "AdaptiveIntelligence::record_memory"} => ret.val = Unit
    /\ ret.op = "KnowledgeGraph::get_entity" =>
          IF ret.arg \in DOMAIN entities
          THEN ret.val = Some(entities[ret.arg])
          ELSE ret.val = None
    /\ ret.op = "KnowledgeGraph::get_relationships" =>
          /\ Len(ret.val) <= Len(relationships)
          /\ TouchingAt(ret.arg) = {} => ret.val = <<>>
    /\ ret.op = "EmotionalResponse::get_emotion" => ret.val \in Emotion
    /\ ret.op = "EmotionalResponse::get_memory" =>
          IF ret.arg \in DOMAIN er_memory
          THEN ret.val.some /\ ret.val.value \in Emotion
          ELSE ret.val = None
    /\ ret.op = "EmotionalResponse::choose_action" =>
          \E e \in Emotion : ret.val = EmotionActionTable[e]
    /\ ret.op = "AdaptiveIntelligence::get_memory" =>
          IF ret.arg \in DOMAIN ai_memory
          THEN ret.val.some /\ ret.val.value \in {r[2] : r \in AgentRecords}
          ELSE ret.val = None
    /\ ret.op = "AdaptiveIntelligence::get_current_state" =>
          ret.val \in AgentLabels \cup {"Idle"}
    /\ ret.op = "AdaptiveIntelligence::choose_action" =>
          \/ ret.val \in {"No action available", "Action not found"}
          \/ \E i \in 1..Len(actions) :
                ret.val = "Action selected: " \o actions[i].description

\* C10: every method of the knowledge graph, the tracker and the engine is
\* enabled in every reachable state for every input (the writes while the
\* run has calls left), and returns a value of its type: a miss is absence
\* or "No action available" / "Action not found", never a fault.
C10_CoreIsTotal ==
    /\ ReadsEnabled
    /\ Len(history) < MaxOps => WritesEnabled
    /\ ReturnedInType

\* C10 witness: get_entity returned absence for an id never inserted, in a
\* graph that holds an entity, with the engine in the unmapped state
\* "Unknown".
C10_Witness ==
    /\ ret.op = "KnowledgeGraph::get_entity"
    /\ ret.val = None
    /\ DOMAIN entities # {}
    /\ current_state = "Unknown"

(***************************************************************************)
(* Frame properties of the decision engine.                                *)
(***************************************************************************)
\* C11: the engine's state changes only in update_state: a step of
\* choose_action, record_memory, get_memory or get_current_state leaves it
\* (and so what get_current_state returns) as it was.
C11_StateChangesOnlyInUpdateState ==
    [][/\ current_state' # current_state =>
             ret'.op = "AdaptiveIntelligence::update_state"
       /\ ret'.op \in {"AdaptiveIntelligence::choose_action",
                       "AdaptiveIntelligence::record_memory",
                       "AdaptiveIntelligence::get_memory",
                       "AdaptiveIntelligence::get_current_state"} =>
             get_current_state(current_state')
                = get_current_state(current_state)]_vars

\* C11 witness: get_current_state returned "Engaged", entered before a
\* record_memory call, the last call that wrote.
C11_Witness ==
    /\ ret.op = "AdaptiveIntelligence::get_current_state"
    /\ ret.val = "Engaged"
    /\ Len(history) >= 2
    /\ history[Len(history)].op = "AdaptiveIntelligence::record_memory"

(***************************************************************************)
(* Frame properties of the emotional response tracker.                     *)
(***************************************************************************)
\* C12: a record_memory step of the tracker leaves the current emotion, and
\* with it what get_emotion and choose_action return, as it was, whatever
\* emotion it records.
C12_RecordMemoryKeepsEmotion ==
    [][ret'.op = "EmotionalResponse::record_memory" =>
          /\ current_emotion' = current_emotion
          /\ get_emotion(current_emotion') = get_emotion(current_emotion)
          /\ ER_choose_action(current_emotion')
                = ER_choose_action(current_emotion)
          /\ ER_choose_action(current_emotion')
                = EmotionActionTable[LastSetEmotion]]_vars

\* C12 witness: choose_action returned "Hide" for Fear, set before two
\* record_memory calls that recorded other emotions.
C12_Witness ==
    /\ ret.op = "EmotionalResponse::choose_action"
    /\ ret.val = "Hide"
    /\ Len(history) = 3
    /\ history[1] = Call("EmotionalResponse::set_emotion", "Fear")
    /\ \A i \in 2..3 :
          /\ history[i].op = "EmotionalResponse::record_memory"
          /\ history[i].arg[2] # "Fear"
    /\ get_emotion(current_emotion) = "Fear"

(***************************************************************************)
(* The two collections of the knowledge store are independent.             *)
(***************************************************************************)
Last(seq) == seq[Len(seq)]

\* C13: add_relationship is accepted whatever its source and target, present
\* or not; the relationship is then returned by get_relationships for both
\* ids; an add_relationship step changes no get_entity result and an
\* add_entity step changes no get_relationships result.
C13_NoReferentialIntegrity ==
    /\ [](Len(history) < MaxOps =>
             \A r \in RelationshipInputs : ENABLED AddRelationship(r))
    /\ [][/\ ret'.op = "KnowledgeGraph::add_relationship" =>
                /\ \A id \in QueryIds :
                      get_entity(entities', id) = get_entity(entities, id)
                /\ \A id \in {ret'.arg.source, ret'.arg.target} :
                      /\ get_relationships(relationships', id) # <<>>
                      /\ Last(get_relationships(relationships', id)) = ret'.arg
          /\ ret'.op = "KnowledgeGraph::add_entity" =>
                \A id \in QueryIds :
                   get_relationships(relationships', id)
                      = get_relationships(relationships, id)]_vars

\* C13 witness: get_relationships returned a relationship neither end of which
\* is an entity of the store, although the store holds an entity.
C13_Witness ==
    /\ ret.op = "KnowledgeGraph::get_relationships"
    /\ ret.val # <<>>
    /\ ret.val[1].source \notin DOMAIN entities
    /\ ret.val[1].target \notin DOMAIN entities
    /\ DOMAIN entities # {}
    /\ get_entity(entities, ret.val[1].source) = None

(***************************************************************************)
(* The two memories are separate namespaces.                               *)
(***************************************************************************)
MemoryKeys == AgentQueryKeys \cup AgentQueryTriggers

\* C14: a record_memory step of the engine changes no get_memory result of
\* the tracker, and a record_memory step of the tracker changes no get_memory
\* result of the engine, the key recorded included.
C14_MemoriesDisjoint ==
    [][/\ ret'.op = "AdaptiveIntelligence::record_memory" =>
             /\ er_memory' = er_memory
             /\ \A t \in MemoryKeys :
                   ER_get_memory(er_memory', t) = ER_get_memory(er_memory, t)
       /\ ret'.op = "EmotionalResponse::record_memory" =>
             /\ ai_memory' = ai_memory
             /\ \A k \in MemoryKeys :
                   AI_get_memory(ai_memory', k) = AI_get_memory(ai_memory, k)
      ]_vars

\* C14 witness: the tracker's get_memory("lost_game") returned the emotion
\* recorded there, after the engine recorded a note under the same key.
C14_Witness ==
    /\ ret.op = "EmotionalResponse::get_memory"
    /\ ret.arg = "lost_game"
    /\ ret.val = Some("Sadness")
    /\ Len(history) = 2
    /\ history[1] = Call("EmotionalResponse::record_memory",
                         <<"lost_game", "Sadness">>)
    /\ history[2] = Call("AdaptiveIntelligence::record_memory",
                         <<"lost_game", "fled">>)
    /\ AI_get_memory(ai_memory, "lost_game") = Some("fled")

(***************************************************************************)
(* The knowledge store only grows.                                         *)
(***************************************************************************)
IsPrefix(s, t) == Len(s) <= Len(t) /\ SubSeq(t, 1, Len(s)) = s

\* C15: in every step an id whose get_entity is present stays present, the
\* relationship sequence before the step is a prefix of the one after it, and
\* the length of get_relationships(x) does not decrease, for every x; so every
\* entity ever added is present and every relationship ever added is listed.
C15_StoreOnlyGrows ==
    /\ [][/\ \A id \in QueryIds :
                get_entity(entities, id).some => get_entity(entities', id).some
          /\ IsPrefix(relationships, relationships')
          /\ \A id \in QueryIds :
                Len(get_relationships(relationships', id))
                   >= Len(get_relationships(relationships, id))]_vars
    /\ [](\A i \in 1..Len(history) :
             /\ history[i].op = "KnowledgeGraph::add_entity" =>
                   get_entity(entities, history[i].arg.id).some
             /\ history[i].op = "KnowledgeGraph::add_relationship" =>
                   \E k \in 1..Len(relationships) :
                      relationships[k] = history[i].arg)

\* C15 witness: get_relationships returned two relationships between the same
\* ends, the earlier one still first, in a store whose entity was added before
\* them.
C15_Witness ==
    /\ ret.op = "KnowledgeGraph::get_relationships"
    /\ Len(ret.val) = 2
    /\ ret.val[1] # ret.val[2]
    /\ ret.val[1].source = ret.val[2].source
    /\ ret.val[1].target = ret.val[2].target
    /\ Len(history) = 3
    /\ history[1].op = "KnowledgeGraph::add_entity"
    /\ history[2].arg = ret.val[1]
    /\ get_entity(entities, history[1].arg.id).some

(***************************************************************************)
(* The catalog is fixed at construction.                                   *)
(***************************************************************************)
\* C16: no step of the engine (update_state, choose_action, record_memory,
\* get_memory, get_current_state) changes the catalog, so what choose_action
\* returns for a label (the one the engine is in before the step, the one it
\* is in after it) is the same before and after every step.
C16_CatalogFixed ==
    [][/\ actions' = actions
       /\ \A l \in {current_state, current_state'} :
             AI_choose_action(l, actions') = AI_choose_action(l, actions)
       /\ (ret'.op = "AdaptiveIntelligence::choose_action"
             /\ ret.op = "AdaptiveIntelligence::choose_action"
             /\ current_state' = current_state) => ret'.val = ret.val]_vars

\* C16 witness: choose_action selected the "Talk" action, second in a
\* catalog of two, after an update_state and a record_memory, and would
\* select it again.
C16_Witness ==
    /\ ret.op = "AdaptiveIntelligence::choose_action"
    /\ Len(actions) = 2
    /\ actions[1].name = "Rest"
    /\ actions[2].name = "Talk"
    /\ ret.val = format_action_selected(actions[2].description)
    /\ AI_choose_action(current_state, actions) = ret.val
    /\ \E i, j \in 1..Len(history) :
          /\ history[i].op = "AdaptiveIntelligence::update_state"
          /\ history[j].op = "AdaptiveIntelligence::record_memory"

C18_MemoryWritesLocal ==
    [][/\ ret'.op = "AdaptiveIntelligence::record_memory" =>
             \A k \in MemoryKeys \ {ret'.arg[1]} :
                AI_get_memory(ai_memory', k) = AI_get_memory(ai_memory, k)
       /\ ret'.op = "EmotionalResponse::record_memory" =>
             \A t \in MemoryKeys \ {ret'.arg[1]} :
                ER_get_memory(er_memory', t) = ER_get_memory(er_memory, t)
       /\ ret'.op \in {"AdaptiveIntelligence::get_memory",
                       "EmotionalResponse::get_memory"} =>
             /\ ai_memory' = ai_memory
             /\ er_memory' = er_memory
             /\ \A k \in MemoryKeys :
                   /\ AI_get_memory(ai_memory', k) = AI_get_memory(ai_memory, k)
                   /\ ER_get_memory(er_memory', k) = ER_get_memory(er_memory, k)
      ]_vars

\* C18 witness: the tracker recorded "won_game" while "lost_game" was already
\* recorded with another emotion and stayed so, the engine's memory holding a
\* key too.
C18_Witness ==
    /\ ret.op = "EmotionalResponse::record_memory"
    /\ ret.arg = <<"won_game", "Joy">>
    /\ ER_get_memory(er_memory, "lost_game") = Some("Sadness")
    /\ ER_get_memory(er_memory, "won_game") = Some("Joy")
    /\ history[1].op = "EmotionalResponse::record_memory"
    /\ DOMAIN ai_memory # {}

(***************************************************************************)
(* Agents are independent.                                                 *)
(***************************************************************************)
\* Every result an agent of these fields can be asked for.
Observables(ents, rels, emotion, emem, state, amem, acts) ==
    [get_entity |-> [id \in QueryIds |-> get_entity(ents, id)],
     get_relationships |->
        [id \in QueryIds |-> get_relationships(rels, id)],
     get_emotion |-> get_emotion(emotion),
     er_get_memory |-> [t \in MemoryKeys |-> ER_get_memory(emem, t)],
     er_choose_action |-> ER_choose_action(emotion),
     get_current_state |-> get_current_state(state),
     ai_get_memory |-> [k \in MemoryKeys |-> AI_get_memory(amem, k)],
     ai_choose_action |-> [l \in Labels \cup {state} |->
                              AI_choose_action(l, acts)]]

FirstObservables ==
    Observables(entities, relationships, current_emotion, er_memory,
                current_state, ai_memory, actions)

PeerObservables ==
    Observables(peer.entities, peer.relationships, peer.current_emotion,
                peer.er_memory, peer.current_state, peer.ai_memory,
                peer.actions)

PeerOps ==
    {"peer " \o op : op \in
        {"KnowledgeGraph::add_entity", "KnowledgeGraph::add_relationship",
         "KnowledgeGraph::get_entity", "KnowledgeGraph::get_relationships",
         "EmotionalResponse::set_emotion", "EmotionalResponse::get_emotion",
         "EmotionalResponse::record_memory", "EmotionalResponse::get_memory",
         "EmotionalResponse::choose_action",
         "AdaptiveIntelligence::update_state",
         "AdaptiveIntelligence::choose_action",
         "AdaptiveIntelligence::record_memory",
         "AdaptiveIntelligence::get_memory",
         "AdaptiveIntelligence::get_current_state"}}

\* C19: a step of one agent leaves every observable result of the other agent
\* (get_entity, get_relationships, get_emotion, get_memory, get_current_state,
\* choose_action) unchanged, in every interleaving of the two agents' calls.
\* (Equal fields give equal results, so the results are compared only across
\* a step that changed a field.)
C19_AgentsIndependent ==
    [][/\ ret'.op \in PeerOps =>
             \/ firstVars' = firstVars
             \/ FirstObservables' = FirstObservables
       /\ ret'.op \notin PeerOps =>
             \/ peer' = peer
             \/ PeerObservables' = PeerObservables]_vars

\* C19 witness: after calls on both agents with the same label and key, the
\* first agent's choose_action returned its own catalog's "Talk" while the
\* peer, in the same state, would return another, and the peer's emotion and
\* memory differ from the first agent's.
C19_Witness ==
    /\ ret.op = "AdaptiveIntelligence::choose_action"
    /\ ret.val = "Action selected: Engage in conversation."
    /\ peer.current_state = current_state
    /\ PeerObservables.ai_choose_action[peer.current_state]
          = "Action selected: Flee from danger."
    /\ PeerObservables.get_emotion = "Joy"
    /\ FirstObservables.get_emotion = "Neutral"
    /\ history[Len(history)].op \in PeerOps

(***************************************************************************)
(* The personality's traits.                                               *)
(***************************************************************************)
InUnitInterval(x) == ~x.nan /\ 0 <= x.tenths /\ x.tenths <= 10

\* The trait a setter writes.
TraitOf(op) ==
    CASE op = "Personality::set_openness" -> "openness"
      [] op = "Personality::set_conscientiousness" -> "conscientiousness"
      [] op = "Personality::set_extraversion" -> "extraversion"
      [] op = "Personality::set_agreeableness" -> "agreeableness"
      [] op = "Personality::set_neuroticism" -> "neuroticism"

SetterOps == {"Personality::set_" \o t : t \in Traits}

\* C20: every trait is 0.5 at construction; the trait a setter has just
\* written lies in [0.0, 1.0]; and so every trait lies in [0.0, 1.0] after
\* any sequence of setter calls.
C20_TraitsInUnitInterval ==
    /\ ret.op = "new" => \A t \in Traits : personality[t] = F64(5)
    /\ ret.op \in SetterOps => InUnitInterval(personality[TraitOf(ret.op)])
    /\ \A t \in Traits : InUnitInterval(personality[t])

\* C20, the state the claim excludes: set_openness(NaN) has returned and
\* openness is NaN, neither 0.0, nor 1.0, nor between them.
C20_Witness ==
    /\ ret.op = "Personality::set_openness"
    /\ ret.arg = NaN
    /\ personality.openness = NaN
    /\ ~InUnitInterval(personality.openness)

\* C20, the part that holds: a setter called with a number stores 0.0 for a
\* value below 0.0, 1.0 for a value above 1.0 and the value itself otherwise,
\* and every setter, whatever its argument, leaves the other four traits
\* unchanged.
C20_OrderedClampAndFrame ==
    [][ret'.op \in SetterOps =>
          /\ ~ret'.arg.nan =>
                personality'[TraitOf(ret'.op)] =
                   IF ret'.arg.tenths < 0 THEN F64(0)
                   ELSE IF ret'.arg.tenths > 10 THEN F64(10)
                   ELSE ret'.arg
          /\ \A t \in Traits \ {TraitOf(ret'.op)} :
                personality'[t] = personality[t]]_vars

(***************************************************************************)
(* What a dialogue request returns.                                        *)
(***************************************************************************)
\* send_message has returned, and `ret` and `request` are that call's.
Completed == ret.op = "send_message" /\ request.pc = "returned"

\* The body is JSON and holds the response object: id, object, creation
\* time, model, choices, usage, fingerprint and x_groq, each of its type.
IsResponseObject(document) ==
    /\ document.json.some
    /\ LET o == document.json.value
       IN /\ {"id", "object", "created", "model", "choices", "usage",
              "system_fingerprint", "x_groq"} \subseteq DOMAIN o
          /\ \A f \in {"id", "object", "model", "system_fingerprint"} :
                o[f].type = "string"
          /\ o.created.type = "number"
          /\ o.choices.type = "array"
          /\ o.usage.type = "object"

\* The message names the status code and ends with the text.
Carries(message, status, text) ==
    \E reason \in {"OK", "Not Modified", "Unauthorized",
                   "Internal Server Error", "<unknown status code>"} :
       message = "Request failed with status: " \o ToString(status) \o " "
                    \o reason \o " - " \o text

\* C21 as stated: Ok only for a success status with a body that is the
\* response object; for every other status an Err whose message carries the
\* status code and the text of the response body; for a success status with
\* a malformed body an Err.
C21_ErrCarriesStatusAndBody ==
    (Completed /\ request.response.some) =>
        LET r == request.response.value
        IN /\ ret.val.tag = "Ok" =>
                 /\ r.status \in 200..299
                 /\ IsResponseObject(r.body)
           /\ r.status \notin 200..299 =>
                 /\ ret.val.tag = "Err"
                 /\ Carries(ret.val.message, r.status, r.body.text)
           /\ (r.status \in 200..299 /\ ~IsResponseObject(r.body)) =>
                 ret.val.tag = "Err"

\* C21 amended: as stated, except that the message carries the text
\* "Failed to read error message" in place of the body's text when the body
\* of a response of non-success status cannot be read; and Ok is returned
\* only for a body that was read, with the response object's fields as the
\* body gives them.
C21_ErrCarriesStatusAndBodyIfRead ==
    /\ (Completed /\ ~request.response.some) => ret.val.tag = "Err"
    /\ (Completed /\ request.response.some) =>
          LET r == request.response.value
          IN /\ ret.val.tag = "Ok" =>
                   /\ r.status \in 200..299
                   /\ r.readable
                   /\ IsResponseObject(r.body)
                   /\ \A f \in DOMAIN ret.val.value :
                         ret.val.value[f] = r.body.json.value[f]
             /\ r.status \notin 200..299 =>
                   /\ ret.val.tag = "Err"
                   /\ Carries(ret.val.message, r.status,
                              IF r.readable THEN r.body.text
                              ELSE "Failed to read error message")
             /\ (r.status \in 200..299
                   /\ ~(r.readable /\ IsResponseObject(r.body))) =>
                   ret.val.tag = "Err"

\* C21 witness: a 500 response whose body was read returned an Err with the
\* status and the body's text in its message.
C21_Witness ==
    /\ Completed
    /\ request.response.some
    /\ request.response.value.status = 500
    /\ request.response.value.readable
    /\ ret.val.tag = "Err"
    /\ ret.val.message = "Request failed with status: 500 Internal Server "
                            \o "Error - <html>Bad Gateway</html>"

(***************************************************************************)
(* A process without GROQ_API_KEY.                                         *)
(***************************************************************************)
\* C22: a send_message call that found no GROQ_API_KEY is fatal to the
\* dialogue request only: the knowledge graph, the emotional response and
\* the adaptive intelligence still hold what the calls made on them put
\* there, and their methods can still be called.
C22_MissingKeyFatalToDialogueOnly ==
    request.pc = "panicked" =>
        /\ get_current_state(current_state) = LastLabel
        /\ get_emotion(current_emotion) = LastSetEmotion
        /\ \A id \in TwinQueryIds : get_entity(entities, id) = LastAdded(id)
        /\ caller = "running"
        /\ ENABLED NPCStep

\* C22, the state the claim excludes: send_message, awaited by the NPC's own
\* task, panicked for want of the key and took the task with it, after the
\* NPC had been given an entity, an emotion or a state; no method of the NPC
\* can be called any more.
C22_Witness ==
    /\ ret.op = "send_message"
    /\ ret.val.tag = "panic"
    /\ request.task = "caller"
    /\ caller = "panicked"
    /\ history # <<>>
    /\ ~ENABLED NPCStep

====
